---- MODULE Spec2Model ----
(***************************************************************************)
(* A model of the sparse table of src/lib.rs: the helper highest_bit, the  *)
(* constructor from_vec (reached through new and From::from), and the two  *)
(* queries smallest and smallest_with_default.                             *)
(*                                                                         *)
(* Vectors are sequences; the code's 0-based index i is position i + 1.    *)
(* A u64 is the set of the positions of its set bits, so that the shifts   *)
(* and the mask of highest_bit keep their 64-bit width.  A call's outcome  *)
(* is a record: kind "Ok" with the value, or kind "Panic" with the panic's *)
(* message.                                                                *)
(***************************************************************************)
EXTENDS Integers, Sequences, FiniteSets, TLC

VARIABLES seq, table, row, phase, last, asked, x, hb

vars == <<seq, table, row, phase, last, asked, x, hb>>

\* Bounds of the model.
MaxLen == 5
MaxVal == 1
MaxSetBits == 2

\* u64 has 64 bits; highest_bit starts its scan with sz = 32.
WordBits == 64
HalfWord == 32

Vals == 0..MaxVal
Defaults == {0, MaxVal + 1}
Args == 0..(MaxLen + 1)
BitIdx == 0..(WordBits - 1)

RECURSIVE SeqsOfLen(_)
SeqsOfLen(n) ==
    IF n = 0 THEN {<<>>}
    ELSE {Append(s, v) : s \in SeqsOfLen(n - 1), v \in Vals}

Inputs == UNION {SeqsOfLen(n) : n \in 0..MaxLen}

\* The words with at most k bits set.
RECURSIVE WordsUpTo(_)
WordsUpTo(k) ==
    IF k = 0 THEN {{}}
    ELSE LET W == WordsUpTo(k - 1)
         IN  W \cup {w \cup {b} : w \in W, b \in BitIdx}

Words == WordsUpTo(MaxSetBits)

---------------------------------------------------------------------------
\* Outcomes of a call.

Ok(v) == [kind |-> "Ok", val |-> v, msg |-> ""]
Panic(m) == [kind |-> "Panic", val |-> 0, msg |-> m]

ZeroBitsMsg == "Zero has no bits set"
EmptyRangeMsg == "No smallest element in an empty range"
OutOfBoundsMsg == "Right bound is out of bounds"
IndexMsg == "index out of bounds"

\* std::cmp::min: the first argument unless the second is strictly smaller.
min(a, b) == IF b < a THEN b ELSE a

---------------------------------------------------------------------------
\* 64-bit words as sets of bit positions.

\* x as u64, for a usize x.
RECURSIVE BitsFrom(_, _)
BitsFrom(n, pos) ==
    IF n = 0 \/ pos >= WordBits THEN {}
    ELSE (IF n % 2 = 1 THEN {pos} ELSE {}) \cup BitsFrom(n \div 2, pos + 1)

AsU64(n) == BitsFrom(n, 0)

\* w << s and w >> s on u64: bits shifted out are lost.
Shl(w, s) == {b + s : b \in {c \in w : c + s < WordBits}}
Shr(w, s) == {b - s : b \in {c \in w : c >= s}}

\* (1 << sz) - 1: the sz low bits.
LowBits(sz) == {b \in BitIdx : b < sz}

\* Mutant of ScanMask: the mask is not shifted up, (1 << sz) - 1.
ScanMaskLow(sz) == LowBits(sz)

\* ((1 << sz) - 1) << sz
ScanMask(sz) == Shl(LowBits(sz), sz)

RECURSIVE HighestBitLoop(_, _, _)
HighestBitLoop(w, ans, sz) ==
    IF sz = 0 THEN ans
    ELSE IF (w \cap ScanMask(sz)) # {}
         THEN HighestBitLoop(Shr(w, sz), ans + sz, sz \div 2)
         ELSE HighestBitLoop(w, ans, sz \div 2)

highest_bit(w) ==
    IF w = {} THEN Panic(ZeroBitsMsg)
    ELSE Ok(HighestBitLoop(w, 0, HalfWord))

---------------------------------------------------------------------------
\* Construction.

Pow2(i) == 2 ^ i

\* Mutant of NextRow: the second iterator skips the whole span, not half.
NextRowFullSkip(prev, half) ==
    LET n == IF Len(prev) > 2 * half THEN Len(prev) - 2 * half ELSE 0
    IN  [j \in 1..n |-> min(prev[j], prev[j + 2 * half])]

\* prev_row.iter().zip(prev_row.iter().skip(half)).map(|(l, r)| min(l, r).clone())
NextRow(prev, half) ==
    LET n == IF Len(prev) > half THEN Len(prev) - half ELSE 0
    IN  [j \in 1..n |-> min(prev[j], prev[j + half])]

RECURSIVE BuildRows(_, _, _)
BuildRows(rows, i, size) ==
    IF Pow2(i) <= size
    THEN LET span == Pow2(i)
             prev_row == rows[Len(rows)]
         IN  BuildRows(Append(rows, NextRow(prev_row, span \div 2)), i + 1, size)
    ELSE rows

\* Mutant of RowEntry: highest_bit is called for 0 as well.
RowEntryNoZeroCheck(n) == highest_bit(AsU64(n))

\* The closure of the lookup: highest_bit(x as u64) for x # 0, else 0.
RowEntry(n) == IF n # 0 THEN highest_bit(AsU64(n)) ELSE Ok(0)

\* (0..size + 1).map(..).collect()
BuildLookup(size) == [j \in 1..(size + 1) |-> RowEntry(j - 1)]

\* A panic of highest_bit unwinds out of from_vec: no table is handed out.
from_vec(s) ==
    LET size == Len(s)
        rows == BuildRows(<<s>>, 1, size)
        lookup == BuildLookup(size)
    IN  IF \E j \in DOMAIN lookup : lookup[j].kind = "Panic"
        THEN [kind |-> "Panic", table |-> <<>>, row |-> <<>>]
        ELSE [kind |-> "Ok", table |-> rows,
              row |-> [j \in DOMAIN lookup |-> lookup[j].val]]

---------------------------------------------------------------------------
\* Queries.

\* v[i] of a Vec: a panic when i is out of bounds.
InBounds(v, i) == i >= 0 /\ i + 1 <= Len(v)

\* Mutant of smallest: only the window that starts at l is read.
smallest_first_window(t, rw, l, r) ==
    IF l >= r THEN Panic(EmptyRangeMsg)
    ELSE IF r > Len(t[1]) THEN Panic(OutOfBoundsMsg)
    ELSE IF ~InBounds(rw, r - l) THEN Panic(IndexMsg)
    ELSE LET k == rw[r - l + 1]
         IN  IF ~InBounds(t, k) THEN Panic(IndexMsg)
             ELSE IF ~InBounds(t[k + 1], l) THEN Panic(IndexMsg)
             ELSE Ok(t[k + 1][l + 1])

\* Mutant of smallest: the bounds check runs before the empty-range check.
smallest_bounds_first(t, rw, l, r) ==
    IF r > Len(t[1]) THEN Panic(OutOfBoundsMsg)
    ELSE IF l >= r THEN Panic(EmptyRangeMsg)
    ELSE LET k == rw[r - l + 1]
             span == Pow2(k)
         IN  Ok(min(t[k + 1][l + 1], t[k + 1][r - span + 1]))

\* Mutant of smallest: a right bound past the end is clamped to the length.
smallest_clamping(t, rw, l, r) ==
    IF l >= r THEN Panic(EmptyRangeMsg)
    ELSE LET rr == min(r, Len(t[1]))
         IN  IF rr <= l THEN Panic(IndexMsg)
             ELSE LET k == rw[rr - l + 1]
                      span == Pow2(k)
                  IN  Ok(min(t[k + 1][l + 1], t[k + 1][rr - span + 1]))

smallest(t, rw, l, r) ==
    IF l >= r THEN Panic(EmptyRangeMsg)
    ELSE IF r > Len(t[1]) THEN Panic(OutOfBoundsMsg)
    ELSE IF ~InBounds(rw, r - l) THEN Panic(IndexMsg)
    ELSE LET k == rw[r - l + 1]
             span == Pow2(k)
         IN  IF ~InBounds(t, k) THEN Panic(IndexMsg)
             ELSE IF ~InBounds(t[k + 1], l) THEN Panic(IndexMsg)
             ELSE IF span > r \/ ~InBounds(t[k + 1], r - span) THEN Panic(IndexMsg)
             ELSE Ok(min(t[k + 1][l + 1], t[k + 1][r - span + 1]))

\* Mutant of smallest_with_default: the left bound is not checked.
swd_no_left_check(t, rw, l, r, d) ==
    IF l >= r
    THEN [res |-> Ok(d), inner |-> <<>>]
    ELSE LET rr == min(r, Len(t[1]))
         IN  [res |-> smallest(t, rw, l, rr), inner |-> <<[l |-> l, r |-> rr]>>]

\* Mutant of smallest_with_default: the right bound is passed on unclamped.
swd_no_clamp(t, rw, l, r, d) ==
    IF l >= r \/ l >= Len(t[1])
    THEN [res |-> Ok(d), inner |-> <<>>]
    ELSE [res |-> smallest(t, rw, l, r), inner |-> <<[l |-> l, r |-> r]>>]

\* Mutant of smallest_with_default: a right bound past the end gives the default.
swd_default_on_overshoot(t, rw, l, r, d) ==
    IF l >= r \/ r > Len(t[1])
    THEN [res |-> Ok(d), inner |-> <<>>]
    ELSE [res |-> smallest(t, rw, l, r), inner |-> <<[l |-> l, r |-> r]>>]

\* res: the outcome; inner: the arguments of the calls of smallest made.
smallest_with_default(t, rw, l, r, d) ==
    IF l >= r \/ l >= Len(t[1])
    THEN [res |-> Ok(d), inner |-> <<>>]
    ELSE LET rr == min(r, Len(t[1]))
         IN  [res |-> smallest(t, rw, l, rr), inner |-> <<[l |-> l, r |-> rr]>>]

---------------------------------------------------------------------------
\* The table's life: an input sequence, construction, then queries.  last is
\* the query in progress and its outcome; asked records that an earlier query
\* has already been answered by this table.

NoCall == [op |-> "none", l |-> 0, r |-> 0, d |-> 0, res |-> Ok(0), inner |-> <<>>]

Init ==
    /\ seq \in Inputs
    /\ table = <<>>
    /\ row = <<>>
    /\ phase = "start"
    /\ last = NoCall
    /\ asked = FALSE
    /\ x = {}
    /\ hb = Ok(0)

\* SparseTable::new(&seq): from_vec of a copy of the slice.
New ==
    /\ phase = "start"
    /\ LET st == from_vec(seq)
       IN  /\ table' = st.table
           /\ row' = st.row
           /\ phase' = IF st.kind = "Ok" THEN "built" ELSE "failed"
    /\ last' = NoCall
    /\ UNCHANGED <<seq, asked, x, hb>>

\* SparseTable::from(seq): from_vec of seq.into().
From ==
    /\ phase = "start"
    /\ LET st == from_vec(seq)
       IN  /\ table' = st.table
           /\ row' = st.row
           /\ phase' = IF st.kind = "Ok" THEN "built" ELSE "failed"
    /\ last' = NoCall
    /\ UNCHANGED <<seq, asked, x, hb>>

\* Mutant of Smallest: the query drops the top row of the table it has read.
SmallestConsuming(l, r) ==
    /\ phase = "built"
    /\ last' = [op |-> "smallest", l |-> l, r |-> r, d |-> 0,
                res |-> smallest(table, row, l, r), inner |-> <<>>]
    /\ phase' = "answered"
    /\ table' = IF Len(table) > 1 THEN SubSeq(table, 1, Len(table) - 1) ELSE table
    /\ UNCHANGED <<seq, row, asked, x, hb>>

Smallest(l, r) ==
    /\ phase = "built"
    /\ last' = [op |-> "smallest", l |-> l, r |-> r, d |-> 0,
                res |-> smallest(table, row, l, r), inner |-> <<>>]
    /\ phase' = "answered"
    /\ UNCHANGED <<seq, table, row, asked, x, hb>>

SmallestWithDefault(l, r, d) ==
    /\ phase = "built"
    /\ LET out == smallest_with_default(table, row, l, r, d)
       IN  last' = [op |-> "smallest_with_default", l |-> l, r |-> r, d |-> d,
                    res |-> out.res, inner |-> out.inner]
    /\ phase' = "answered"
    /\ UNCHANGED <<seq, table, row, asked, x, hb>>

\* The caller takes the outcome; the table is ready for the next query.
Return ==
    /\ phase = "answered"
    /\ phase' = "built"
    /\ last' = NoCall
    /\ asked' = TRUE
    /\ UNCHANGED <<seq, table, row, x, hb>>

Next ==
    \/ New
    \/ From
    \/ Return
    \/ \E l \in Args, r \in Args : Smallest(l, r)
    \/ \E l \in Args, r \in Args, d \in Defaults : SmallestWithDefault(l, r, d)

Spec == Init /\ [][Next]_vars

---------------------------------------------------------------------------
\* highest_bit on its own: a word, then the call.

InitHB ==
    /\ x \in Words
    /\ hb = Ok(0)
    /\ phase = "hb_start"
    /\ seq = <<>>
    /\ table = <<>>
    /\ row = <<>>
    /\ last = NoCall
    /\ asked = FALSE

HighestBit ==
    /\ phase = "hb_start"
    /\ hb' = highest_bit(x)
    /\ phase' = "hb_done"
    /\ UNCHANGED <<seq, table, row, last, asked, x>>

NextHB == HighestBit

SpecHB == InitHB /\ [][NextHB]_vars

---------------------------------------------------------------------------
\* Properties.

Built == phase \in {"built", "answered"}
AnsweredBy(op) == phase = "answered" /\ last.op = op
N == Len(seq)

\* The minimum of s over the code's indices l..r-1, by looking at each element.
ScanMin(s, l, r) ==
    LET elems == {s[i + 1] : i \in l..(r - 1)}
    IN  CHOOSE v \in elems : \A w \in elems : v <= w

Smaller(a, b) == IF a <= b THEN a ELSE b

\* C1: for 0 <= l < r <= n, smallest(l, r) on the table built from a sequence
\* returns the minimum a linear scan of that sequence finds over l..r-1.
C1_SmallestIsScanMin ==
    (AnsweredBy("smallest") /\ last.l < last.r /\ last.r <= N)
        => /\ last.res.kind = "Ok"
           /\ last.res.val = ScanMin(seq, last.l, last.r)
           /\ (last.r = last.l + 1 => last.res.val = seq[last.l + 1])

\* A range of length 5 whose only minimum lies in the second window alone.
C1_Witness ==
    /\ AnsweredBy("smallest")
    /\ seq = <<1, 1, 1, 1, 0>>
    /\ last.l = 0 /\ last.r = 5
    /\ last.res = Ok(0)

\* C2: for l >= r, on a table of any length, smallest(l, r) fails with the
\* empty-range failure and returns no value.
C2_EmptyRangeFails ==
    (AnsweredBy("smallest") /\ last.l >= last.r)
        => /\ last.res.kind = "Panic"
           /\ last.res.msg = EmptyRangeMsg

\* The empty table queried with smallest(0, 0).
C2_Witness ==
    /\ AnsweredBy("smallest")
    /\ seq = <<>>
    /\ last.l = 0 /\ last.r = 0
    /\ last.res = Panic(EmptyRangeMsg)

\* C3 as claimed: whenever r exceeds n, smallest(l, r) fails with the
\* out-of-bounds failure.
C3_AsClaimed ==
    (AnsweredBy("smallest") /\ last.r > N)
        => /\ last.res.kind = "Panic"
           /\ last.res.msg = OutOfBoundsMsg

\* C3: whenever r exceeds n, smallest(l, r) fails and returns no value: with
\* the out-of-bounds failure when l < r, with the empty-range failure when
\* l >= r.
C3_OutOfBoundsFails ==
    (AnsweredBy("smallest") /\ last.r > N)
        => /\ last.res.kind = "Panic"
           /\ (last.l < last.r => last.res.msg = OutOfBoundsMsg)
           /\ (last.l >= last.r => last.res.msg = EmptyRangeMsg)

\* A non-empty table queried one past its end, from a valid left bound.
C3_Witness ==
    /\ AnsweredBy("smallest")
    /\ N = 3
    /\ last.l = 1 /\ last.r = 4
    /\ last.res = Panic(OutOfBoundsMsg)

\* C4: for l >= r or l >= n, with any r, smallest_with_default(l, r, d)
\* returns exactly d.
C4_DefaultReturned ==
    (AnsweredBy("smallest_with_default") /\ (last.l >= last.r \/ last.l >= N))
        => last.res = Ok(last.d)

\* A non-empty range that starts at the end of the sequence.
C4_Witness ==
    /\ AnsweredBy("smallest_with_default")
    /\ N = MaxLen
    /\ last.l = N /\ last.r = N + 1
    /\ last.d = MaxVal + 1
    /\ last.res = Ok(MaxVal + 1)

\* C5: smallest_with_default never fails, and every call of smallest it makes
\* has left < right and right <= n.
C5_DefaultedNeverFails ==
    AnsweredBy("smallest_with_default")
        => /\ last.res.kind = "Ok"
           /\ \A j \in DOMAIN last.inner :
                  /\ last.inner[j].l < last.inner[j].r
                  /\ last.inner[j].r <= N

\* A call that delegates after clamping a right bound that overshoots.
C5_Witness ==
    /\ AnsweredBy("smallest_with_default")
    /\ N = 4
    /\ last.l = 3 /\ last.r = 6
    /\ last.inner = <<[l |-> 3, r |-> 4]>>
    /\ last.res.kind = "Ok"

\* C6: for l < r and l < n, smallest_with_default(l, r, d) returns what
\* smallest(l, min(r, n)) returns, the minimum of the sequence over
\* l..min(r, n)-1, and not the default.
C6_DefaultedDelegates ==
    (AnsweredBy("smallest_with_default") /\ last.l < last.r /\ last.l < N)
        => LET rr == IF last.r > N THEN N ELSE last.r
           IN  /\ last.res.kind = "Ok"
               /\ last.res.val = ScanMin(seq, last.l, rr)
               /\ last.res = smallest(table, row, last.l, rr)
               /\ ((\A j \in 1..N : seq[j] # last.d) => last.res.val # last.d)

\* An overshooting range with a default that the sequence does not hold.
C6_Witness ==
    /\ AnsweredBy("smallest_with_default")
    /\ seq = <<0, 0, 1, 1, 1>>
    /\ last.l = 2 /\ last.r = 6
    /\ last.d = MaxVal + 1
    /\ last.res = Ok(1)

\* The outcome of the query in last as the sequence and the arguments alone
\* determine it.
ExpectedOutcome ==
    IF last.op = "smallest"
    THEN IF last.l >= last.r THEN Panic(EmptyRangeMsg)
         ELSE IF last.r > N THEN Panic(OutOfBoundsMsg)
         ELSE Ok(ScanMin(seq, last.l, last.r))
    ELSE IF last.l >= last.r \/ last.l >= N THEN Ok(last.d)
         ELSE Ok(ScanMin(seq, last.l, IF last.r > N THEN N ELSE last.r))

\* C7: once the table is built, no step changes the level table or the
\* lookup, and a query's outcome is fixed by its arguments and the sequence
\* the table was built from, whatever queries ran before.
C7_QueriesArePure ==
    /\ [][Built => (table' = table /\ row' = row)]_vars
    /\ [](phase = "answered" => last.res = ExpectedOutcome)

\* A query answered by a table that has answered a query before.
C7_Witness ==
    /\ AnsweredBy("smallest")
    /\ asked
    /\ Len(table) = 3
    /\ last.l = 0 /\ last.r = 4
    /\ last.res.kind = "Ok"

\* C8: row 0 is the input; row k >= 1 exists iff 2^k <= n; row k has length
\* n - 2^k + 1; row[k][i] is the minimum of the input over i..i+2^k-1 and
\* equals min(row[k-1][i], row[k-1][i + 2^(k-1)]).
C8_TableShape ==
    Built =>
        /\ table[1] = seq
        /\ \A k \in 1..(Len(table) + 1) : (k + 1 <= Len(table)) <=> (2 ^ k <= N)
        /\ (N <= 1 => Len(table) = 1)
        /\ \A k \in 0..(Len(table) - 1) :
               /\ Len(table[k + 1]) = N - 2 ^ k + 1
               /\ \A i \in 0..(N - 2 ^ k) :
                      /\ table[k + 1][i + 1] = ScanMin(seq, i, i + 2 ^ k)
                      /\ k >= 1 => table[k + 1][i + 1] =
                             Smaller(table[k][i + 1], table[k][i + 2 ^ (k - 1) + 1])

\* A table of three rows built from five elements.
C8_Witness ==
    /\ phase = "built"
    /\ seq = <<0, 1, 1, 1, 0>>
    /\ table = <<seq, <<0, 1, 1, 0>>, <<0, 0>>>>

\* C9: the lookup has n + 1 entries, entry 0 is 0, 2^lookup[x] <= x <
\* 2^(lookup[x]+1) for 1 <= x <= n, and construction never fails in
\* highest_bit (which fails for 0 alone).
C9_LookupIsFloorLog ==
    /\ phase # "failed"
    /\ Built =>
           /\ Len(row) = N + 1
           /\ row[1] = 0
           /\ \A n \in 1..N : 2 ^ row[n + 1] <= n /\ n < 2 ^ (row[n + 1] + 1)

\* The lookup of a table of five elements.
C9_Witness ==
    /\ phase = "built"
    /\ N = 5
    /\ row = <<0, 0, 1, 1, 2, 2>>

\* C10: for a 64-bit x >= 1, highest_bit(x) is the position of the highest set
\* bit of x; for x = 0 it panics.
C10_HighestBit ==
    phase = "hb_done" =>
        /\ x = {} => (hb.kind = "Panic" /\ hb.msg = ZeroBitsMsg)
        /\ x # {} => /\ hb.kind = "Ok"
                     /\ hb.val \in x
                     /\ \A b \in x : b <= hb.val
        /\ \A k \in BitIdx : x = {k} => hb = Ok(k)

\* highest_bit(2^63 + 1), the top bit with a low bit below it.
C10_Witness ==
    /\ phase = "hb_done"
    /\ x = {0, WordBits - 1}
    /\ hb = Ok(WordBits - 1)

====
